---- MODULE Spec2Model ----
(***************************************************************************)
(* BME280 over SPI (src/src/spi.rs): the SPIInterface register access      *)
(* functions, BME280::new, the derived BME280::default and                 *)
(* BME280::destroy, as a state machine.                                    *)
(*                                                                         *)
(* One step of the machine is one invocation of an underlying capability   *)
(* (OutputPin::set_low / set_high, Transfer::transfer) by the handler that *)
(* is running, together with everything the handler does up to its next   *)
(* invocation or its return.  The pin and the bus are the environment:     *)
(* each invocation either succeeds or reports one of a few error values.   *)
(***************************************************************************)
EXTENDS Integers, Sequences, FiniteSets, TLC

(***************************************************************************)
(* Bounds of the model.                                                    *)
(***************************************************************************)
\* the pin reports an error value in 1..MaxPinErr, or succeeds (0)
MaxPinErr == 2
\* the bus reports an error value in 1..MaxSpiErr, or succeeds (0)
MaxSpiErr == 2
\* the bus clocks in one of MaxSeed byte patterns on a successful transfer
MaxSeed == 2
\* the caller supplies one of MaxHandleSet pairs of pin and delay to new
MaxHandleSet == 2
\* the caller supplies a handle of one of MaxBus buses to new
MaxBus == 2

(***************************************************************************)
(* Program constants.                                                      *)
(***************************************************************************)
\* u8: the values of a register address, a payload and a buffer element
ByteRange == 256
\* the mask of write_register, 0x7f
WriteMask == 127
\* lengths of the fixed-size payload buffers (declared in the crate root)
BME280_P_T_H_DATA_LEN == 8
BME280_P_T_CALIB_DATA_LEN == 26
BME280_H_CALIB_DATA_LEN == 7

Bytes == 0 .. (ByteRange - 1)
\* the register addresses the caller passes: the sensor's registers
\* (0x88, 0xD0, 0xE1, 0xF4, 0xF7), the same addresses with bit 7 clear
\* (0x08, 0x74) and the ends of both halves (0x00, 0x7F, 0x80, 0xFF)
Registers == {0, 8, 116, 127, 128, 136, 208, 225, 244, 247, 255}
\* the payloads the caller writes
Payloads == {0, 60, 255}
Seeds == 0 .. (MaxSeed - 1)
HandleSets == 1 .. MaxHandleSet
Buses == 1 .. MaxBus

VARIABLES
    pc,           \* position of the running handler, or idle / unbuilt / ...
    call,         \* the call in progress, or the last one that returned
    level,        \* level of the chip-select pin
    entry_level,  \* level of the chip-select pin when `call` was entered
    data,         \* the destination buffer of read_any_register
    log,          \* the invocations `call` made on the pin and the bus
    result,       \* what `call` returned
    common,       \* the handles the BME280 struct owns
    supplied,     \* the handles that were passed to new
    returned,     \* the handles destroy gave back
    current,      \* which adapter the variables above describe (1 or 2)
    parked,       \* the other adapter on the bus, no call of it in progress
    reliable      \* the pin and the bus never report an error

vars == <<pc, call, level, entry_level, data, log, result, common, supplied, returned,
          current, parked, reliable>>

\* what the operations of one adapter leave alone
others == <<current, parked, reliable>>

\* what a pin operation and a transfer may report: success (0) or an error
PinOutcomes == IF reliable THEN {0} ELSE 0 .. MaxPinErr
SpiOutcomes == IF reliable THEN {0} ELSE 0 .. MaxSpiErr

(***************************************************************************)
(* Values.                                                                 *)
(***************************************************************************)
NoResult == [tag |-> "None"]
Ok(v) == [tag |-> "Ok", val |-> v]
Unit == <<>>
\* no handles: nothing owned, nothing passed, nothing given back
NoHandles == [spi |-> -1, cs |-> -1, delay |-> -1]
\* SPI::default(), CS::default(), D::default()
DefaultHandles == [spi |-> 0, cs |-> 0, delay |-> 0]
NoCall == [op |-> "none", register |-> 0, payload |-> 0]

\* Error::Bus(SPIError::Pin(e))
ErrPin(e) == [tag |-> "Err", bus |-> [kind |-> "Pin", e |-> e]]

\* a transfer error wrapped in the pin variant
ErrSPI_as_pin(e) == [tag |-> "Err", bus |-> [kind |-> "Pin", e |-> e]]

\* Error::Bus(SPIError::SPI(e))
ErrSPI(e) == [tag |-> "Err", bus |-> [kind |-> "SPI", e |-> e]]

\* x & y on unsigned integers
RECURSIVE BitAnd(_, _)
BitAnd(x, y) ==
    IF x = 0 \/ y = 0 THEN 0
    ELSE (x % 2) * (y % 2) + 2 * BitAnd(x \div 2, y \div 2)

\* [0; n]
Zeros(n) == [i \in 1 .. n |-> 0]

\* the address buffer with the read flag (bit 7) forced on
AddressBuffer_read_flag(register) == <<BitAnd(register, WriteMask) + 128>>

\* let mut register = [register];
AddressBuffer(register) == <<register>>

\* the write buffer with the address left as passed
WriteBuffer_unmasked(register, payload) == <<register, payload>>

\* let mut transfer = [register & 0x7f, payload];
WriteBuffer(register, payload) == <<BitAnd(register, WriteMask), payload>>

\* the destination buffers with the two block lengths exchanged
DataLen_swapped(op) ==
    CASE op = "read_register" -> 1
      [] op = "read_data" -> BME280_P_T_CALIB_DATA_LEN
      [] op = "read_pt_calib_data" -> BME280_P_T_H_DATA_LEN
      [] op = "read_h_calib_data" -> BME280_H_CALIB_DATA_LEN

\* the length of the destination buffer each read operation allocates
DataLen(op) ==
    CASE op = "read_register" -> 1
      [] op = "read_data" -> BME280_P_T_H_DATA_LEN
      [] op = "read_pt_calib_data" -> BME280_P_T_CALIB_DATA_LEN
      [] op = "read_h_calib_data" -> BME280_H_CALIB_DATA_LEN

\* a read operation returning a fresh zeroed buffer instead of the filled one
ReadReturn_zeroed(op, d) == IF op = "read_register" THEN Ok(0) ELSE Ok(Zeros(Len(d)))

\* what a read operation returns once read_any_register returned Ok(())
ReadReturn(op, d) == IF op = "read_register" THEN Ok(d[1]) ELSE Ok(d)

(***************************************************************************)
(* The environment: the pin and the bus.                                   *)
(***************************************************************************)
\* the bytes the bus clocks in during a transfer of n bytes
Response(seed, n) == [i \in 1 .. n |-> (171 * seed + i - 1) % ByteRange]

\* Transfer::transfer: the buffer after the call
Transferred(buf, e, seed) == IF e = 0 THEN Response(seed, Len(buf)) ELSE buf

\* OutputPin::set_low / set_high: the pin's level after the call
PinAfter(target, e) == IF e = 0 THEN target ELSE level

\* one invocation of an underlying capability: what was clocked out, what
\* was clocked in, and the error it reported (0: none)
Invocation(op, out, inp, e) == [op |-> op, out |-> out, inp |-> inp, err |-> e]

\* an adapter between its calls: its lifecycle, its pin and its handles
Parked(p, l, c, su, r) ==
    [pc |-> p, level |-> l, common |-> c, supplied |-> su, returned |-> r]

\* the handles a caller owns
Handles(b, h) == [spi |-> b, cs |-> 10 * h + 2, delay |-> 10 * h + 3]

(***************************************************************************)
(* Initial state: nothing constructed, the pin at either level.            *)
(***************************************************************************)
Init ==
    /\ pc = "unbuilt"
    /\ call = NoCall
    /\ level \in {"high", "low"}
    /\ entry_level = level
    /\ data = <<>>
    /\ log = <<>>
    /\ result = NoResult
    /\ common = NoHandles
    /\ supplied = NoHandles
    /\ returned = NoHandles
    /\ current = 1
    /\ parked = Parked("absent", "high", NoHandles, NoHandles, NoHandles)
    /\ reliable = FALSE

(***************************************************************************)
(* BME280::new                                                             *)
(***************************************************************************)
\* new without the initial deassertion of chip-select
New_without_deassert ==
    /\ pc = "unbuilt"
    /\ \E b \in Buses, h \in HandleSets :
        /\ call' = [op |-> "new", register |-> 0, payload |-> 0]
        /\ supplied' = Handles(b, h)
        /\ common' = Handles(b, h)
    /\ entry_level' = level
    /\ log' = <<>>
    /\ result' = Ok(Unit)
    /\ pc' = "idle"
    /\ UNCHANGED <<level, data, returned>>
    /\ UNCHANGED others

New ==
    /\ pc = "unbuilt"
    /\ \E b \in Buses, h \in HandleSets, e \in PinOutcomes :
        /\ call' = [op |-> "new", register |-> 0, payload |-> 0]
        /\ supplied' = Handles(b, h)
        /\ entry_level' = level
        /\ level' = PinAfter("high", e)
        /\ log' = <<Invocation("set_high", <<>>, <<>>, e)>>
        /\ IF e # 0
           THEN /\ result' = ErrPin(e)
                /\ pc' = "new_failed"
                /\ common' = common
           ELSE /\ result' = Ok(Unit)
                /\ pc' = "idle"
                /\ common' = Handles(b, h)
    /\ UNCHANGED <<data, returned>>
    /\ UNCHANGED others

(***************************************************************************)
(* BME280::default (derived): the adapter is built over default handles,   *)
(* and the pin is not touched.                                             *)
(***************************************************************************)
Default ==
    /\ pc = "unbuilt"
    /\ pc' = "idle"
    /\ call' = [op |-> "default", register |-> 0, payload |-> 0]
    /\ entry_level' = level
    /\ log' = <<>>
    /\ result' = NoResult
    /\ common' = DefaultHandles
    /\ UNCHANGED <<level, data, supplied, returned>>
    /\ UNCHANGED others

(***************************************************************************)
(* BME280::destroy                                                         *)
(***************************************************************************)
\* destroy handing the bus and the pin back in each other's place
Destroy_swapped ==
    /\ pc = "idle"
    /\ pc' = "destroyed"
    /\ call' = [op |-> "destroy", register |-> 0, payload |-> 0]
    /\ entry_level' = level
    /\ log' = <<>>
    /\ returned' = [spi |-> common.cs, cs |-> common.spi, delay |-> common.delay]
    /\ common' = NoHandles
    /\ UNCHANGED <<level, data, result, supplied>>
    /\ UNCHANGED others

Destroy ==
    /\ pc = "idle"
    /\ pc' = "destroyed"
    /\ call' = [op |-> "destroy", register |-> 0, payload |-> 0]
    /\ entry_level' = level
    /\ log' = <<>>
    /\ returned' = [spi |-> common.spi, cs |-> common.cs, delay |-> common.delay]
    /\ common' = NoHandles
    /\ UNCHANGED <<level, data, result, supplied>>
    /\ UNCHANGED others

(***************************************************************************)
(* The four read operations: each allocates its buffer and runs            *)
(* read_any_register.                                                      *)
(***************************************************************************)
ReadEntry(op, register) ==
    /\ pc = "idle"
    /\ call' = [op |-> op, register |-> register, payload |-> 0]
    /\ entry_level' = level
    /\ data' = Zeros(DataLen(op))
    /\ log' = <<>>
    /\ result' = NoResult
    /\ pc' = "rar_set_low"
    /\ UNCHANGED <<level, common, supplied, returned>>
    /\ UNCHANGED others

read_register == \E register \in Registers : ReadEntry("read_register", register)

read_data == \E register \in Registers : ReadEntry("read_data", register)

read_pt_calib_data == \E register \in Registers : ReadEntry("read_pt_calib_data", register)

read_h_calib_data == \E register \in Registers : ReadEntry("read_h_calib_data", register)

(***************************************************************************)
(* read_any_register                                                       *)
(***************************************************************************)
\* the call returns r: its locals are dropped
Return(r) ==
    /\ result' = r
    /\ pc' = "idle"
    /\ data' = <<>>

\* set_low whose error is dropped instead of propagated
RAR_set_low_unchecked ==
    /\ pc = "rar_set_low"
    /\ \E e \in PinOutcomes :
        /\ level' = PinAfter("low", e)
        /\ log' = Append(log, Invocation("set_low", <<>>, <<>>, e))
    /\ pc' = "rar_register"
    /\ UNCHANGED <<call, entry_level, result, data, common, supplied, returned>>
    /\ UNCHANGED others

RAR_set_low ==
    /\ pc = "rar_set_low"
    /\ \E e \in PinOutcomes :
        /\ level' = PinAfter("low", e)
        /\ log' = Append(log, Invocation("set_low", <<>>, <<>>, e))
        /\ IF e # 0
           THEN Return(ErrPin(e))
           ELSE pc' = "rar_register" /\ UNCHANGED <<result, data>>
    /\ UNCHANGED <<call, entry_level, common, supplied, returned>>
    /\ UNCHANGED others

RAR_transfer_register ==
    /\ pc = "rar_register"
    /\ \E e \in SpiOutcomes, s \in Seeds :
        LET out == AddressBuffer(call.register) IN
        /\ log' = Append(log, Invocation("transfer", out, Transferred(out, e, s), e))
        /\ IF e # 0
           THEN Return(ErrSPI(e))
           ELSE pc' = "rar_data" /\ UNCHANGED <<result, data>>
    /\ UNCHANGED <<call, level, entry_level, common, supplied, returned>>
    /\ UNCHANGED others

\* the data phase tried again after a failure
RAR_transfer_data_retry ==
    /\ pc = "rar_data"
    /\ \E e \in SpiOutcomes, s \in Seeds :
        /\ log' = Append(log, Invocation("transfer", data, Transferred(data, e, s), e))
        /\ IF e # 0
           THEN UNCHANGED <<pc, data>>
           ELSE /\ pc' = "rar_set_high"
                /\ data' = Transferred(data, e, s)
    /\ UNCHANGED <<call, level, entry_level, result, common, supplied, returned>>
    /\ UNCHANGED others

RAR_transfer_data ==
    /\ pc = "rar_data"
    /\ \E e \in SpiOutcomes, s \in Seeds :
        /\ log' = Append(log, Invocation("transfer", data, Transferred(data, e, s), e))
        /\ IF e # 0
           THEN Return(ErrSPI(e))
           ELSE /\ pc' = "rar_set_high"
                /\ data' = Transferred(data, e, s)
                /\ UNCHANGED result
    /\ UNCHANGED <<call, level, entry_level, common, supplied, returned>>
    /\ UNCHANGED others

\* read_any_register returning without the final set_high
RAR_set_high_skipped ==
    /\ pc = "rar_set_high"
    /\ Return(ReadReturn(call.op, data))
    /\ UNCHANGED <<call, level, log, entry_level, common, supplied, returned>>
    /\ UNCHANGED others

\* set_high whose error is dropped instead of propagated
RAR_set_high_unchecked ==
    /\ pc = "rar_set_high"
    /\ \E e \in PinOutcomes :
        /\ level' = PinAfter("high", e)
        /\ log' = Append(log, Invocation("set_high", <<>>, <<>>, e))
    /\ Return(ReadReturn(call.op, data))
    /\ UNCHANGED <<call, entry_level, common, supplied, returned>>
    /\ UNCHANGED others

RAR_set_high ==
    /\ pc = "rar_set_high"
    /\ \E e \in PinOutcomes :
        /\ level' = PinAfter("high", e)
        /\ log' = Append(log, Invocation("set_high", <<>>, <<>>, e))
        /\ IF e # 0
           THEN Return(ErrPin(e))
           ELSE Return(ReadReturn(call.op, data))
    /\ UNCHANGED <<call, entry_level, common, supplied, returned>>
    /\ UNCHANGED others

(***************************************************************************)
(* write_register                                                          *)
(***************************************************************************)
write_register ==
    /\ pc = "idle"
    /\ \E register \in Registers, payload \in Payloads :
        call' = [op |-> "write_register", register |-> register, payload |-> payload]
    /\ entry_level' = level
    /\ data' = <<>>
    /\ log' = <<>>
    /\ result' = NoResult
    /\ pc' = "wr_set_low"
    /\ UNCHANGED <<level, common, supplied, returned>>
    /\ UNCHANGED others

\* set_low whose error is dropped instead of propagated
WR_set_low_unchecked ==
    /\ pc = "wr_set_low"
    /\ \E e \in PinOutcomes :
        /\ level' = PinAfter("low", e)
        /\ log' = Append(log, Invocation("set_low", <<>>, <<>>, e))
    /\ pc' = "wr_transfer"
    /\ UNCHANGED <<call, entry_level, result, data, common, supplied, returned>>
    /\ UNCHANGED others

WR_set_low ==
    /\ pc = "wr_set_low"
    /\ \E e \in PinOutcomes :
        /\ level' = PinAfter("low", e)
        /\ log' = Append(log, Invocation("set_low", <<>>, <<>>, e))
        /\ IF e # 0
           THEN Return(ErrPin(e))
           ELSE pc' = "wr_transfer" /\ UNCHANGED <<result, data>>
    /\ UNCHANGED <<call, entry_level, common, supplied, returned>>
    /\ UNCHANGED others

WR_transfer ==
    /\ pc = "wr_transfer"
    /\ \E e \in SpiOutcomes, s \in Seeds :
        LET out == WriteBuffer(call.register, call.payload) IN
        /\ log' = Append(log, Invocation("transfer", out, Transferred(out, e, s), e))
        /\ IF e # 0
           THEN Return(ErrSPI(e))
           ELSE pc' = "wr_set_high" /\ UNCHANGED <<result, data>>
    /\ UNCHANGED <<call, level, entry_level, common, supplied, returned>>
    /\ UNCHANGED others

\* write_register returning without the final set_high
WR_set_high_skipped ==
    /\ pc = "wr_set_high"
    /\ Return(Ok(Unit))
    /\ UNCHANGED <<call, level, log, entry_level, common, supplied, returned>>
    /\ UNCHANGED others

WR_set_high ==
    /\ pc = "wr_set_high"
    /\ \E e \in PinOutcomes :
        /\ level' = PinAfter("high", e)
        /\ log' = Append(log, Invocation("set_high", <<>>, <<>>, e))
        /\ IF e # 0
           THEN Return(ErrPin(e))
           ELSE Return(Ok(Unit))
    /\ UNCHANGED <<call, entry_level, common, supplied, returned>>
    /\ UNCHANGED others

Next ==
    \/ New
    \/ Default
    \/ Destroy
    \/ read_register
    \/ read_data
    \/ read_pt_calib_data
    \/ read_h_calib_data
    \/ RAR_set_low
    \/ RAR_transfer_register
    \/ RAR_transfer_data
    \/ RAR_set_high
    \/ write_register
    \/ WR_set_low
    \/ WR_transfer
    \/ WR_set_high

Spec == Init /\ [][Next]_vars

(***************************************************************************)
(* Two adapters on one bus, each with its own chip-select pin.  Their      *)
(* calls never overlap: the caller turns to the other adapter only while   *)
(* no call is in progress.  In this system the pin and the bus never       *)
(* report an error.                                                        *)
(***************************************************************************)
Init2 ==
    /\ pc = "unbuilt"
    /\ call = NoCall
    /\ level \in {"high", "low"}
    /\ entry_level = level
    /\ data = <<>>
    /\ log = <<>>
    /\ result = NoResult
    /\ common = NoHandles
    /\ supplied = NoHandles
    /\ returned = NoHandles
    /\ current = 1
    /\ \E l \in {"high", "low"} :
        parked = Parked("unbuilt", l, NoHandles, NoHandles, NoHandles)
    /\ reliable = TRUE

Switch ==
    /\ parked.pc # "absent"
    /\ pc \in {"unbuilt", "new_failed", "idle", "destroyed"}
    /\ parked' = Parked(pc, level, common, supplied, returned)
    /\ pc' = parked.pc
    /\ level' = parked.level
    /\ common' = parked.common
    /\ supplied' = parked.supplied
    /\ returned' = parked.returned
    /\ entry_level' = parked.level
    /\ call' = NoCall
    /\ log' = <<>>
    /\ result' = NoResult
    /\ data' = <<>>
    /\ current' = 3 - current
    /\ UNCHANGED reliable

Next2 ==
    \/ Next
    \/ Switch

TwoSpec == Init2 /\ [][Next2]_vars

\* the steps of a call that is in progress
Step ==
    \/ RAR_set_low
    \/ RAR_transfer_register
    \/ RAR_transfer_data
    \/ RAR_set_high
    \/ WR_set_low
    \/ WR_transfer
    \/ WR_set_high

\* a call that was entered runs on: every invocation of the pin and the bus
\* returns, and the handler is the only thread
FairSpec == Spec /\ WF_vars(Step)

(***************************************************************************)
(* Vocabulary of the properties.                                           *)
(***************************************************************************)
ReadOps == {"read_register", "read_data", "read_pt_calib_data", "read_h_calib_data"}
IoOps == ReadOps \cup {"write_register"}

\* a read or write operation has returned to its caller
IoReturned == pc = "idle" /\ call.op \in IoOps

\* the names of the invocations of the call, in order
OpsOf(l) == [i \in 1 .. Len(l) |-> l[i].op]

\* the positions of the call's invocations of op
Positions(op) == {i \in 1 .. Len(log) : log[i].op = op}

\* the positions of the call's invocations of op that reported an error
Failed(op) == {i \in Positions(op) : log[i].err # 0}

\* the bus-transfer-failure variant carrying the error value e
BusTransferFailure(e) == [tag |-> "Err", bus |-> [kind |-> "SPI", e |-> e]]

\* the pin-failure variant carrying the error value e
PinFailure(e) == [tag |-> "Err", bus |-> [kind |-> "Pin", e |-> e]]

\* every invocation of the call succeeded
AllSucceeded == \A i \in 1 .. Len(log) : log[i].err = 0

(***************************************************************************)
(* C1: whenever no call is in progress on a constructed adapter, the       *)
(* chip-select pin is high: every read and write operation restores it     *)
(* before returning, on every exit path.  The code does not: a failed      *)
(* transfer returns with the pin low.  Stated of the adapters that new     *)
(* constructed (the claim's "successful construction").                    *)
(***************************************************************************)
C1_PinHighWhenNoCallInProgress ==
    (pc = "idle" /\ supplied # NoHandles) => level = "high"

(***************************************************************************)
(* C2: whenever a read or write operation returns success, the pin is      *)
(* high at the moment of return, whatever level it had when the call was   *)
(* entered.                                                                *)
(***************************************************************************)
C2_SuccessLeavesPinHigh ==
    (IoReturned /\ result.tag = "Ok") => level = "high"

\* a successful call that was entered with the pin low
C2_Witness ==
    /\ IoReturned
    /\ result.tag = "Ok"
    /\ entry_level = "low"
    /\ level = "high"

(***************************************************************************)
(* C3: a read operation all of whose steps succeed invokes exactly         *)
(* set_low, a transfer of 1 byte, a transfer of the operation's fixed      *)
(* length, set_high, in this order, and nothing else.                      *)
(***************************************************************************)
C3_ExpectedLen ==
    CASE call.op = "read_register" -> 1
      [] call.op = "read_data" -> BME280_P_T_H_DATA_LEN
      [] call.op = "read_pt_calib_data" -> BME280_P_T_CALIB_DATA_LEN
      [] call.op = "read_h_calib_data" -> BME280_H_CALIB_DATA_LEN

C3_ReadSequence ==
    (IoReturned /\ call.op \in ReadOps /\ AllSucceeded) =>
        /\ result.tag = "Ok"
        /\ OpsOf(log) = <<"set_low", "transfer", "transfer", "set_high">>
        /\ Len(log[2].out) = 1
        /\ Len(log[3].out) = C3_ExpectedLen

\* a pressure/temperature calibration read that went through
C3_Witness ==
    /\ IoReturned
    /\ call.op = "read_pt_calib_data"
    /\ AllSucceeded
    /\ Len(log) = 4
    /\ Len(log[3].out) = BME280_P_T_CALIB_DATA_LEN

(***************************************************************************)
(* C4: write_register(a, p) issues at most one transfer, after a           *)
(* successful set_low and before any set_high, and exactly one between     *)
(* one set_low and one set_high when every step succeeds; the buffer       *)
(* clocked out is [a mod 128, p], and it is the same for a and a + 128     *)
(* (a < 128).                                                              *)
(***************************************************************************)
C4_WriteFrame ==
    call.op = "write_register" =>
        /\ Cardinality(Positions("transfer")) <= 1
        /\ \A i \in Positions("transfer") :
            /\ i = 2
            /\ log[1].op = "set_low" /\ log[1].err = 0
            /\ log[i].out = <<call.register % 128, call.payload>>
        /\ (pc = "idle" /\ AllSucceeded) =>
            OpsOf(log) = <<"set_low", "transfer", "set_high">>
        /\ \A a \in 0 .. 127 :
            /\ WriteBuffer(a, call.payload) = <<a, call.payload>>
            /\ WriteBuffer(a + 128, call.payload) = <<a, call.payload>>

\* 0x3C written to 0xF4 puts [0x74, 0x3C] on the bus
C4_Witness ==
    /\ IoReturned
    /\ call = [op |-> "write_register", register |-> 244, payload |-> 60]
    /\ result = [tag |-> "Ok", val |-> <<>>]
    /\ Len(log) = 3
    /\ log[2].out = <<116, 60>>

(***************************************************************************)
(* C5: a call one of whose transfers fails returns the SPI variant         *)
(* carrying the transfer's error value; the failed transfer is the call's  *)
(* last invocation (no set_high, and no data phase after a failed address  *)
(* phase), and the pin is low at return.                                   *)
(***************************************************************************)
C5_TransferFailure ==
    \A i \in Failed("transfer") :
        /\ IoReturned
        /\ result = BusTransferFailure(log[i].err)
        /\ i = Len(log)
        /\ Positions("set_high") = {}
        /\ log[1].op = "set_low" /\ log[1].err = 0
        /\ \A j \in 2 .. (i - 1) : log[j].op = "transfer" /\ log[j].err = 0
        /\ i <= (IF call.op \in ReadOps THEN 3 ELSE 2)
        /\ level = "low"

\* a read whose address phase failed
C5_WitnessAddress ==
    /\ IoReturned
    /\ call.op = "read_data"
    /\ Len(log) = 2
    /\ Failed("transfer") = {2}
    /\ level = "low"

(***************************************************************************)
(* C6: a call whose set_low fails returns the Pin variant carrying the     *)
(* pin's error value; the failed set_low is the call's only invocation     *)
(* (no transfer, no set_high).                                             *)
(***************************************************************************)
C6_SetLowFailure ==
    \A i \in Failed("set_low") :
        /\ IoReturned
        /\ result = PinFailure(log[i].err)
        /\ Len(log) = 1
        /\ level = entry_level

\* a write whose set_low failed
C6_Witness ==
    /\ IoReturned
    /\ call.op = "write_register"
    /\ Failed("set_low") = {1}

(***************************************************************************)
(* C7: a call whose transfers succeed and whose set_high fails returns     *)
(* the Pin variant carrying the pin's error value, and nothing else: the   *)
(* bytes a read clocked in are not part of what the caller gets.           *)
(***************************************************************************)
C7_SetHighFailure ==
    call.op \in IoOps =>
        \A i \in Failed("set_high") :
            /\ IoReturned
            /\ i = Len(log)
            /\ \A j \in 1 .. (i - 1) : log[j].err = 0
            /\ result = PinFailure(log[i].err)
            /\ DOMAIN result = {"tag", "bus"}
            /\ data = <<>>

\* a block read that clocked in non-zero bytes and then failed to deassert
C7_Witness ==
    /\ IoReturned
    /\ call.op = "read_data"
    /\ Len(log) = 4
    /\ log[3].err = 0
    /\ log[3].inp # log[3].out
    /\ Failed("set_high") = {4}

(***************************************************************************)
(* C8: new invokes set_high once and nothing else; it fails, with the Pin  *)
(* variant carrying the pin's error value, if and only if that set_high    *)
(* fails; when it succeeds the pin is high, and no read or write           *)
(* operation runs on an adapter that was not constructed.                  *)
(***************************************************************************)
C8_Construction ==
    /\ call.op = "new" =>
        /\ OpsOf(log) = <<"set_high">>
        /\ pc \in {"idle", "new_failed"}
        /\ pc = "new_failed" <=> log[1].err # 0
        /\ pc = "new_failed" => result = PinFailure(log[1].err)
        /\ pc = "idle" => result = [tag |-> "Ok", val |-> <<>>] /\ level = "high" /\ common = supplied
    /\ call.op \in IoOps =>
        /\ common # NoHandles
        /\ supplied # NoHandles => common = supplied
    /\ pc \in {"unbuilt", "new_failed"} => common = NoHandles

\* construction over a pin that was low
C8_Witness ==
    /\ call.op = "new"
    /\ pc = "idle"
    /\ entry_level = "low"
    /\ level = "high"

(***************************************************************************)
(* C9: destroy can be called whenever no call is in progress, also after   *)
(* calls that returned errors; it gives back the three handles passed to   *)
(* new, invokes neither the pin nor the bus and leaves the pin's level as  *)
(* the last operation left it.                                             *)
(***************************************************************************)
C9_DestroyReturnsHandles ==
    /\ pc = "idle" => ENABLED Destroy
    /\ pc = "destroyed" =>
        /\ returned = (IF supplied # NoHandles THEN supplied ELSE DefaultHandles)
        /\ returned # NoHandles
        /\ log = <<>>
        /\ level = entry_level

\* destroy after a call that returned an error
C9_Witness ==
    /\ pc = "destroyed"
    /\ result.tag = "Err"
    /\ supplied # NoHandles
    /\ returned = supplied

(***************************************************************************)
(* C10: the chip-select pin destroy hands back is high, after any          *)
(* sequence of earlier read and write calls.  The code hands it back low   *)
(* after a call whose transfer failed, even for an adapter that new        *)
(* constructed, the only ones this formula speaks of.                      *)
(***************************************************************************)
C10_DestroyedPinHigh ==
    (pc = "destroyed" /\ supplied # NoHandles) => level = "high"

(***************************************************************************)
(* C11: a read operation that succeeds returns exactly the bytes the bus   *)
(* clocked into the destination buffer during the data-phase transfer, in  *)
(* order (read_register: that single byte), not the byte clocked in        *)
(* during the address phase; the pin's invocations of the call are         *)
(* set_low, set_high.                                                      *)
(***************************************************************************)
C11_PinOps == {i \in 1 .. Len(log) : log[i].op \in {"set_low", "set_high"}}

C11_ReadReturnsDataPhase ==
    (IoReturned /\ call.op \in ReadOps /\ result.tag = "Ok") =>
        /\ Len(log) = 4
        /\ log[3].op = "transfer"
        /\ Len(log[3].inp) = C3_ExpectedLen
        /\ IF call.op = "read_register"
           THEN result = [tag |-> "Ok", val |-> log[3].inp[1]]
           ELSE result = [tag |-> "Ok", val |-> log[3].inp]
        /\ C11_PinOps = {1, 4}
        /\ log[1].op = "set_low" /\ log[4].op = "set_high"

\* register 0x88 read while the bus answers 0xAB in the data phase and
\* something else in the address phase
C11_Witness ==
    /\ IoReturned
    /\ call.op = "read_register"
    /\ call.register = 136
    /\ Len(log) = 4
    /\ log[2].inp = <<0>>
    /\ log[3].inp = <<171>>
    /\ result = [tag |-> "Ok", val |-> 171]

(***************************************************************************)
(* C12: the byte clocked out in the address phase of a read operation is   *)
(* the address exactly as the caller passed it, bit 7 neither set nor      *)
(* cleared.                                                                *)
(***************************************************************************)
C12_ReadAddressUnmodified ==
    (call.op \in ReadOps /\ Len(log) >= 2) =>
        /\ log[2].op = "transfer"
        /\ log[2].out = <<call.register>>

\* an address with bit 7 clear went out as it was
C12_Witness ==
    /\ call.op = "read_h_calib_data"
    /\ call.register = 116
    /\ Len(log) >= 2
    /\ log[2].out = <<116>>
    /\ log[2].err = 0

(***************************************************************************)
(* C13 as claimed: when a read or write operation returns, the select line *)
(* is high unless one of its transfers failed.                             *)
(***************************************************************************)
C13_HighUnlessTransferFailed ==
    (IoReturned /\ Failed("transfer") = {}) => level = "high"

(***************************************************************************)
(* C13, amended: on the fully successful path the select line is high at   *)
(* return; a failed set_low returns without invoking set_high, the line at *)
(* the level it had when the call was entered; a failed set_high was       *)
(* invoked and leaves the line low; the transfer-failure paths are the     *)
(* only ones that return after a successful set_low without invoking       *)
(* set_high.                                                               *)
(***************************************************************************)
C13_DeassertionByPath ==
    IoReturned =>
        /\ result.tag = "Ok" => level = "high"
        /\ Failed("set_low") # {} =>
            Positions("set_high") = {} /\ level = entry_level
        /\ Failed("set_high") # {} => level = "low"
        /\ (Failed("set_low") = {} /\ Positions("set_high") = {})
            <=> Failed("transfer") # {}

\* a write whose set_high failed: the call returns with the line low
C13_Witness ==
    /\ IoReturned
    /\ call.op = "write_register"
    /\ Failed("transfer") = {}
    /\ Failed("set_high") = {3}
    /\ level = "low"

(***************************************************************************)
(* C14: no retry and no recovery.  Within a call set_low and set_high are  *)
(* invoked at most once and each transfer once (a read: at most 4          *)
(* invocations, a write: at most 3); an invocation that fails is the       *)
(* call's last, the call has returned and its error is the one that        *)
(* invocation reported; and a call that was entered returns.               *)
(***************************************************************************)
C14_InCall == pc \notin {"unbuilt", "new_failed", "idle", "destroyed"}

C14_Bounded ==
    call.op \in IoOps =>
        /\ Len(log) <= (IF call.op \in ReadOps THEN 4 ELSE 3)
        /\ Cardinality(Positions("set_low")) <= 1
        /\ Cardinality(Positions("set_high")) <= 1
        /\ Cardinality(Positions("transfer")) <= (IF call.op \in ReadOps THEN 2 ELSE 1)
        /\ \A i \in 1 .. Len(log) :
            log[i].err # 0 =>
                /\ i = Len(log)
                /\ pc = "idle"
                /\ result = [tag |-> "Err",
                             bus |-> [kind |-> IF log[i].op = "transfer"
                                               THEN "SPI" ELSE "Pin",
                                      e |-> log[i].err]]

C14_NoRetry == [] C14_Bounded /\ (C14_InCall ~> pc = "idle")

\* a read that stopped at its failed data phase, the third invocation
C14_Witness ==
    /\ IoReturned
    /\ call.op = "read_pt_calib_data"
    /\ Len(log) = 3
    /\ log[3].err = 2
    /\ result.tag = "Err"

(***************************************************************************)
(* C15: no transfer is issued while the chip-select pin is high: when a    *)
(* call is about to issue a transfer the pin is low, and every transfer    *)
(* of a call comes after its successful set_low and before any set_high.   *)
(***************************************************************************)
C15_TransferOnlyWhileSelected ==
    /\ pc \in {"rar_register", "rar_data", "wr_transfer"} => level = "low"
    /\ call.op \in IoOps =>
        \A i \in Positions("transfer") :
            /\ log[1].op = "set_low"
            /\ log[1].err = 0
            /\ \A j \in 1 .. i : log[j].op # "set_high"

\* a write, entered with the pin high, about to issue its transfer
C15_Witness ==
    /\ pc = "wr_transfer"
    /\ entry_level = "high"
    /\ level = "low"
    /\ Len(log) = 1

(***************************************************************************)
(* C16: two adapters constructed by BME280::new over one bus and distinct  *)
(* chip-select pins; their calls do not overlap and neither the pins nor   *)
(* the bus ever fail.  Then at most one of the two pins is low at any      *)
(* time, and whenever a call is about to issue a transfer the calling      *)
(* adapter's pin is low and the other adapter's pin is high.               *)
(***************************************************************************)
C16_BothConstructed ==
    /\ pc \notin {"unbuilt", "new_failed"}
    /\ parked.pc \in {"idle", "destroyed"}
    /\ supplied # NoHandles
    /\ parked.supplied # NoHandles
    /\ supplied.spi = parked.supplied.spi
    /\ supplied.cs # parked.supplied.cs

C16_OneSelected ==
    C16_BothConstructed =>
        /\ ~ (level = "low" /\ parked.level = "low")
        /\ pc \in {"rar_register", "rar_data", "wr_transfer"} =>
            level = "low" /\ parked.level = "high"

\* the second adapter in its data phase, on the bus of the first adapter,
\* which is still in use
C16_Witness ==
    /\ C16_BothConstructed
    /\ current = 2
    /\ parked.pc = "idle"
    /\ common.spi = parked.common.spi
    /\ common.cs # parked.common.cs
    /\ pc = "rar_data"
    /\ level = "low"
    /\ parked.level = "high"

====
